---- MODULE Spec2Model ----
(***************************************************************************)
(* swaggerlicious (src/src/index.ts, lines 226-477): synthesis of example  *)
(* request and response payloads for the operations of a Swagger document. *)
(*                                                                         *)
(* The recursion traverseAndConstructExample <-> getExampleValue is        *)
(* modelled with an explicit call stack, one frame per activation of       *)
(* traverseAndConstructExample.  extendSpecification is modelled on a heap *)
(* of operation objects so that R.clone and the in-place assignments to    *)
(* operation nodes are visible.                                            *)
(***************************************************************************)
EXTENDS Integers, Sequences, FiniteSets, TLC

(***************************************************************************)
(* Bounds of the model                                                     *)
(***************************************************************************)
\* number of nodes of the deep non-cyclic schema chain
ChainLen == 16
\* number of path items of the input specification
NPaths == 2
\* largest nestingLevel passed by a direct caller of traverseAndConstructExample
MaxLevel == 12
\* cap on the modelled call stack (never reached by the code as written)
MaxStack == 13

(***************************************************************************)
(* Program constants                                                       *)
(***************************************************************************)
INT32_MAX_VALUE == 2147483647
\* "if (nestingLevel > 10) return;"
MaxNesting == 10
\* "if (recursiveNestingLevel[recursiveKey] > 2)"
MaxRecursiveNesting == 2

(***************************************************************************)
(* JSON values.  Every value is a record of the same shape so that any two *)
(* values can be compared: k is the kind, s / n the payload of a string /  *)
(* number / boolean, keys and vals the own keys (in insertion order) and   *)
(* their values of an object, vals the elements of an array.               *)
(***************************************************************************)
Val(k, s, n, keys, vals) ==
    [k |-> k, s |-> s, n |-> n, keys |-> keys, vals |-> vals]

Undefined == Val("undefined", "", 0, <<>>, <<>>)
Null == Val("null", "", 0, <<>>, <<>>)
Str(s) == Val("string", s, 0, <<>>, <<>>)
Num(n) == Val("number", "", n, <<>>, <<>>)
\* Number.MAX_SAFE_INTEGER and Number.MAX_VALUE exceed 32-bit integers:
\* they are kept as named numbers
NamedNum(s) == Val("number", s, 0, <<>>, <<>>)
Bool(b) == Val("boolean", "", IF b THEN 1 ELSE 0, <<>>, <<>>)
Obj(keys, vals) == Val("object", "", 0, keys, vals)
Arr(vals) == Val("array", "", 0, <<>>, vals)
\* an own property that was never assigned
Absent == Val("absent", "", 0, <<>>, <<>>)

\* JavaScript ToBoolean
Truthy(v) ==
    CASE v.k = "undefined" -> FALSE
      [] v.k = "absent" -> FALSE
      [] v.k = "null" -> FALSE
      [] v.k = "boolean" -> v.n = 1
      [] v.k = "number" -> (v.n # 0 \/ v.s # "")
      [] v.k = "string" -> v.s # ""
      [] OTHER -> TRUE

RECURSIVE SeqToSet(_)
SeqToSet(s) == IF s = <<>> THEN {} ELSE {Head(s)} \cup SeqToSet(Tail(s))

\* position of key in keys, 0 when it is not an own key
RECURSIVE IndexOf(_, _)
IndexOf(keys, key) ==
    IF keys = <<>> THEN 0
    ELSE IF keys[Len(keys)] = key THEN Len(keys)
    ELSE IndexOf(SubSeq(keys, 1, Len(keys) - 1), key)

\* obj[key]
Get(obj, key) ==
    IF IndexOf(obj.keys, key) = 0 THEN Undefined
    ELSE obj.vals[IndexOf(obj.keys, key)]

\* R.equals: structural equality, independent of the order of the keys
RECURSIVE REquals(_, _)
REquals(a, b) ==
    IF a.k # b.k THEN FALSE
    ELSE IF a.k = "object"
    THEN /\ Len(a.keys) = Len(b.keys)
         /\ \A i \in 1..Len(a.keys) :
               /\ IndexOf(b.keys, a.keys[i]) # 0
               /\ REquals(a.vals[i], b.vals[IndexOf(b.keys, a.keys[i])])
    ELSE IF a.k = "array"
    THEN /\ Len(a.vals) = Len(b.vals)
         /\ \A i \in 1..Len(a.vals) : REquals(a.vals[i], b.vals[i])
    ELSE a.s = b.s /\ a.n = b.n

(***************************************************************************)
(* Schema nodes (OpenAPI.Schema).  type "" is an absent type, example      *)
(* Undefined an absent example, items "" an absent items; properties is    *)
(* the sequence of <<name, node id>> in key order.                         *)
(***************************************************************************)
Schema(type, format, example, hasRequired, required, properties, items) ==
    [type |-> type, format |-> format, example |-> example,
     hasRequired |-> hasRequired, required |-> required,
     properties |-> properties, items |-> items]

Leaf(type, format) == Schema(type, format, Undefined, FALSE, <<>>, <<>>, "")
WithExample(type, format, example) ==
    Schema(type, format, example, FALSE, <<>>, <<>>, "")
Object(properties) == Schema("object", "", Undefined, FALSE, <<>>, properties, "")
ObjectReq(required, properties) ==
    Schema("object", "", Undefined, TRUE, required, properties, "")
Array(items) == Schema("array", "", Undefined, FALSE, <<>>, <<>>, items)

\* names of the properties of the chain levels; each occurs at most twice
\* along the chain
LevelNames == <<"l1", "l2", "l3", "l4", "l5", "l6", "l7", "l8", "l9">>
ChainIds ==
    <<"c1", "c2", "c3", "c4", "c5", "c6", "c7", "c8", "c9", "c10",
      "c11", "c12", "c13", "c14", "c15", "c16", "c17", "c18">>
\* chain levels that are arrays (their items is the next level)
ChainArrays == {3, 9}

\* A schema nested ChainLen levels deep through object and array typed
\* properties, without any cycle.
ChainNode(i) ==
    IF i >= ChainLen THEN Object(<<>>)
    ELSE IF i \in ChainArrays THEN Array(ChainIds[i + 1])
    ELSE Object(<< <<LevelNames[(i % 9) + 1], ChainIds[i + 1]>> >>)

FixedSchemas ==
    [ String |-> Leaf("string", ""),
      Date |-> Leaf("string(date-time)", ""),
      Int32 |-> Leaf("integer", "int32"),
      Integer32 |-> Leaf("integer(32)", ""),
      Int64 |-> Leaf("integer", "int64"),
      Integer64 |-> Leaf("integer(64)", ""),
      Double |-> Leaf("double", ""),
      Boolean |-> Leaf("boolean", ""),
      Untyped |-> Leaf("", ""),
      Integer |-> Leaf("integer", ""),
      \* literal examples, truthy and falsy
      ExString |-> WithExample("string", "", Str("abc")),
      ExNumber |-> WithExample("integer", "int32", Num(7)),
      ExZero |-> WithExample("integer", "int32", Num(0)),
      ExFalse |-> WithExample("boolean", "", Bool(FALSE)),
      ExTrue |-> WithExample("boolean", "", Bool(TRUE)),
      ExEmpty |-> WithExample("string", "", Str("")),
      ExNull |-> WithExample("object", "", Null),
      ExUntyped |-> WithExample("", "", Str("free")),
      ExObject |-> Schema("object", "", Obj(<<"id">>, <<Num(1)>>), FALSE, <<>>,
                          << <<"id", "Int32">> >>, ""),
      ExArray |-> Schema("array", "", Arr(<<Str("x")>>), FALSE, <<>>, <<>>, "Widget"),
      Examples |-> Object(<< <<"a", "ExString">>, <<"b", "ExNumber">>,
                             <<"c", "ExZero">>, <<"d", "ExFalse">>,
                             <<"e", "ExTrue">>, <<"f", "ExEmpty">>,
                             <<"g", "ExNull">>, <<"h", "ExUntyped">>,
                             <<"i", "ExObject">>, <<"j", "ExArray">> >>),
      \* objects of scalars
      Widget |-> ObjectReq(<<"name", "count">>,
                           << <<"name", "String">>, <<"count", "Int32">>,
                              <<"tag", "String">> >>),
      Empty |-> Object(<<>>),
      AllRequired |-> ObjectReq(<<"name", "count">>,
                                << <<"name", "String">>, <<"count", "Int32">> >>),
      NoRequired |-> Object(<< <<"name", "String">>, <<"flag", "Boolean">> >>),
      EmptyRequired |-> ObjectReq(<<>>, << <<"name", "String">> >>),
      OtherRequired |-> ObjectReq(<<"ghost">>, << <<"name", "String">> >>),
      Scalars |-> ObjectReq(<<"s", "u", "n">>,
                            << <<"s", "Date">>, <<"i", "Integer32">>,
                               <<"l", "Int64">>, <<"m", "Integer64">>,
                               <<"d", "Double">>, <<"b", "Boolean">>,
                               <<"u", "Untyped">>, <<"n", "Integer">> >>),
      \* nested objects and arrays without cycles
      Order |-> ObjectReq(<<"widget", "lines">>,
                          << <<"widget", "Widget">>, <<"lines", "Lines">>,
                             <<"tags", "Tags">>, <<"note", "String">> >>),
      Lines |-> Array("AllRequired"),
      Tags |-> Array("String"),
      \* the same property name on three levels, no cycle
      X1 |-> Object(<< <<"x", "X2">> >>),
      X2 |-> Object(<< <<"x", "X3">> >>),
      X3 |-> Object(<< <<"x", "X4">> >>),
      X4 |-> Object(<< <<"v", "String">> >>),
      \* the same property name in three sibling branches, no cycle
      Sib |-> Object(<< <<"root", "SibRoot">> >>),
      SibRoot |-> Object(<< <<"p", "SibP">>, <<"q", "SibQ">>, <<"r", "SibR">> >>),
      SibP |-> Object(<< <<"x", "X4">> >>),
      SibQ |-> Object(<< <<"x", "X4">> >>),
      SibR |-> Object(<< <<"x", "X4">> >>),
      \* direct self reference through one named property
      Node |-> ObjectReq(<<"child">>,
                         << <<"value", "String">>, <<"child", "Node">> >>),
      Link |-> Object(<< <<"next", "Link">> >>),
      \* self reference as the items of an array typed property
      Tree |-> ObjectReq(<<"children", "label">>,
                         << <<"label", "String">>, <<"children", "TreeList">> >>),
      TreeList |-> Array("Tree"),
      \* several self referencing properties
      Bin |-> Object(<< <<"left", "Bin">>, <<"right", "Bin">> >>),
      \* mutual cycle through differently named properties
      Ping |-> Object(<< <<"pong", "Pong">> >>),
      Pong |-> Object(<< <<"ping", "Ping">> >>),
      \* a cycle through six differently named properties
      R1 |-> Object(<< <<"r1", "R2">> >>),
      R2 |-> Object(<< <<"r2", "R3">> >>),
      R3 |-> Object(<< <<"r3", "R4">> >>),
      R4 |-> Object(<< <<"r4", "R5">> >>),
      R5 |-> Object(<< <<"r5", "R6">> >>),
      R6 |-> Object(<< <<"r6", "R1">> >>) ]

ChainIdSet == {ChainIds[i] : i \in 1..ChainLen}
SchemaIds == DOMAIN FixedSchemas \cup ChainIdSet

\* the schema nodes the resolver produced, by node id
ResolvedSchemas ==
    [id \in SchemaIds |->
        IF id \in DOMAIN FixedSchemas THEN FixedSchemas[id]
        ELSE ChainNode(IndexOf(ChainIds, id))]

\* the successors of a node in the schema graph
Succ(id) ==
    {ResolvedSchemas[id].properties[i][2] :
        i \in 1..Len(ResolvedSchemas[id].properties)}
    \cup (IF ResolvedSchemas[id].items = "" THEN {} ELSE {ResolvedSchemas[id].items})

RECURSIVE Closure(_)
Closure(S) ==
    LET T == S \cup UNION {Succ(n) : n \in S}
    IN IF T = S THEN S ELSE Closure(T)

\* the nodes that are reachable from themselves
CyclicNodes == {n \in SchemaIds : n \in Closure(Succ(n))}
\* a cycle can be reached from the node
HasCycle(id) == id # "" /\ Closure({id}) \cap CyclicNodes # {}

\* every property name of the resolved schemas
Names ==
    UNION {{ResolvedSchemas[id].properties[i][1] :
                i \in 1..Len(ResolvedSchemas[id].properties)} : id \in SchemaIds}

(***************************************************************************)
(* The reference lookup table: reference URI -> resolved schema node.      *)
(***************************************************************************)
Definitions ==
    {"Widget", "Empty", "AllRequired", "NoRequired", "EmptyRequired",
     "OtherRequired", "Scalars", "Order", "Examples", "Boolean", "X1", "Sib",
     "Node", "Link", "Tree", "Bin", "Ping", "R1", "c1"}
Uri(definition) == "#/definitions/" \o definition
Dangling == "#/definitions/Missing"
LookupTable == [uri \in {Uri(d) : d \in Definitions} |->
                   CHOOSE d \in Definitions : Uri(d) = uri]

(***************************************************************************)
(* Operations (IOperation) and the input specification.                    *)
(***************************************************************************)
possibleOperations == <<"get", "post", "delete", "put", "patch", "head">>
Verbs == {possibleOperations[i] : i \in 1..Len(possibleOperations)}

\* ref "" is a schema without $ref
Parameter(in, hasSchema, ref) == [in |-> in, hasSchema |-> hasSchema, ref |-> ref]
QueryParameter == Parameter("query", FALSE, "")
BodyParameter(ref) == Parameter("body", TRUE, ref)
NoParameters == [defined |-> FALSE, list |-> <<>>]
Parameters(list) == [defined |-> TRUE, list |-> list]

Responses(defined, hasDefault, hasSchema, ref) ==
    [defined |-> defined, hasDefault |-> hasDefault, hasSchema |-> hasSchema,
     ref |-> ref]
NoResponses == Responses(FALSE, FALSE, FALSE, "")
DefaultResponse(ref) == Responses(TRUE, TRUE, TRUE, ref)

NewOperation(parameters, responses) ==
    [parameters |-> parameters, responses |-> responses,
     xExampleRequest |-> Absent, xSimpleExampleRequest |-> Absent,
     xExampleResponse |-> Absent]

ParameterInputs ==
    {NoParameters, Parameters(<<>>), Parameters(<<QueryParameter>>),
     Parameters(<<BodyParameter("")>>), Parameters(<<BodyParameter(Dangling)>>),
     Parameters(<<Parameter("body", FALSE, "")>>),
     Parameters(<<QueryParameter, BodyParameter(Uri("Order"))>>),
     Parameters(<<BodyParameter(Uri("Empty")), BodyParameter(Uri("Widget"))>>)}
    \cup {Parameters(<<BodyParameter(Uri(d))>>) : d \in Definitions}

ResponseInputs ==
    {NoResponses, Responses(TRUE, FALSE, FALSE, ""),
     Responses(TRUE, TRUE, FALSE, ""), DefaultResponse(""),
     DefaultResponse(Dangling)}
    \cup {DefaultResponse(Uri(d)) :
             d \in {"Widget", "Boolean", "Empty", "Node", "Examples"}}

OperationInputs ==
    {NewOperation(p, NoResponses) : p \in ParameterInputs}
    \cup {NewOperation(p, r) :
             p \in {NoParameters, Parameters(<<BodyParameter(Uri("Widget"))>>)},
             r \in ResponseInputs}

\* the operation of the end-to-end scenario: post /widgets with body Widget;
\* in a path item, address 0 is an absent operation
WidgetOperation ==
    NewOperation(Parameters(<<BodyParameter(Uri("Widget"))>>),
                 DefaultResponse(Uri("Widget")))

VARIABLES
    schemas,                \* the resolved schema nodes, by node id
    referenceLookupTable,   \* reference URI -> node id
    heap,                   \* the operation objects, by address
    openApiSpecification,   \* the caller's paths: verb -> address, per path
    specification,          \* the paths of R.clone(openApiSpecification)
    pc,                     \* where the program is
    path,                   \* the path item being mapped
    verb,                   \* index into possibleOperations
    exampleRequest,         \* local of the callback, line 298
    simpleExampleRequest,   \* local of the callback, line 303
    entry,                  \* arguments of the running top-level call
    stack,                  \* activations of traverseAndConstructExample
    recursiveNestingLevel,  \* the RecursiveNesting object shared by the call
    result,                 \* value returned by the top-level call
    call                    \* the last getExampleValue call and what it did

vars ==
    <<schemas, referenceLookupTable, heap, openApiSpecification, specification,
      pc, path, verb, exampleRequest, simpleExampleRequest, entry, stack,
      recursiveNestingLevel, result, call>>

\* the RecursiveNesting object {}: its own keys are the names counted so far
NoNesting == [n \in {} |-> 0]
\* recursiveNestingLevel[key], undefined read as 0
Count(rnl, key) == IF key \in DOMAIN rnl THEN rnl[key] ELSE 0

NoEntry ==
    [fn |-> "", definition |-> "", onlyRequired |-> FALSE, nestingLevel |-> 0,
     recursiveKey |-> "", hasNesting |-> FALSE]
NoCall ==
    [name |-> "", property |-> "", nestingLevel |-> 0, branch |-> "",
     value |-> Undefined, traversed |-> FALSE]

(***************************************************************************)
(* traverseAndConstructExample, lines 377-408                              *)
(***************************************************************************)
\* faulty variant of PickBy: the filter on the required list is lost
PickBy_All(required, properties) == properties

\* R.pickBy((value, key) => R.any(required => required === key, required))
PickBy(required, properties) ==
    SelectSeq(properties,
              LAMBDA p : \E i \in 1..Len(required) : required[i] = p[1])

\* lines 387-394
Properties(node, onlyRequired) ==
    IF onlyRequired THEN PickBy(node.required, node.properties)
    ELSE node.properties

\* the three "return null" of lines 384, 385 and 396
ReturnsNull(definition, onlyRequired) ==
    \/ definition = ""
    \/ onlyRequired /\ ~schemas[definition].hasRequired
    \/ Len(Properties(schemas[definition], onlyRequired)) = 0

\* an activation past line 396: exampleRequest = {} and the properties to map
Frame(definition, onlyRequired, nestingLevel, recursiveKey, hasNesting, wrap) ==
    [node |-> definition, onlyRequired |-> onlyRequired,
     nestingLevel |-> nestingLevel, recursiveKey |-> recursiveKey,
     hasNesting |-> hasNesting,
     todo |-> Properties(schemas[definition], onlyRequired),
     keys |-> <<>>, vals |-> <<>>, wrap |-> wrap]

\* a top-level call of traverseAndConstructExample
Invoke(definition, onlyRequired, nestingLevel, recursiveKey, hasNesting) ==
    /\ entry' = [fn |-> "traverseAndConstructExample", definition |-> definition,
                 onlyRequired |-> onlyRequired, nestingLevel |-> nestingLevel,
                 recursiveKey |-> recursiveKey, hasNesting |-> hasNesting]
    /\ call' = NoCall
    /\ IF ReturnsNull(definition, onlyRequired)
       THEN stack' = <<>> /\ result' = Null
       ELSE /\ stack' = <<Frame(definition, onlyRequired, nestingLevel,
                                recursiveKey, hasNesting, FALSE)>>
            /\ result' = Undefined

(***************************************************************************)
(* getExampleValue, lines 410-477                                          *)
(***************************************************************************)
StartsWith(s, prefix) ==
    Len(s) >= Len(prefix) /\ SubSeq(s, 1, Len(prefix)) = prefix

\* line 418: if (property.example)
HasExample(property) == Truthy(property.example)

\* faulty variants of BeyondMaxNesting: the ceiling one level late, and the
\* ceiling removed
BeyondMaxNesting_OffByOne(nestingLevel) == nestingLevel > MaxNesting + 1
BeyondMaxNesting_Removed(nestingLevel) == FALSE

\* line 442: if (nestingLevel > 10)
BeyondMaxNesting(nestingLevel) == nestingLevel > MaxNesting

\* the return statement getExampleValue reaches, lines 418-442; "nested" when
\* it goes on to the recursion bookkeeping of line 445
Branch(property, nestingLevel) ==
    IF HasExample(property) THEN "example"
    ELSE IF property.type = "" THEN "untyped"
    ELSE IF StartsWith(property.type, "string") THEN "string"
    ELSE IF \/ property.type = "integer(32)"
            \/ (property.type = "integer" /\ property.format = "int32")
         THEN "int32"
    ELSE IF \/ property.type = "integer(64)"
            \/ (property.type = "integer" /\ property.format = "int64")
         THEN "int64"
    ELSE IF property.type = "double" THEN "double"
    ELSE IF property.type = "boolean" THEN "boolean"
    ELSE IF BeyondMaxNesting(nestingLevel) THEN "ceiling"
    ELSE "nested"

\* the value returned on each of these branches
Returned(branch, property) ==
    CASE branch = "example" -> property.example
      [] branch = "untyped" -> Undefined
      [] branch = "string" -> Str("Example string")
      [] branch = "int32" -> Num(INT32_MAX_VALUE)
      [] branch = "int64" -> NamedNum("Number.MAX_SAFE_INTEGER")
      [] branch = "double" -> NamedNum("Number.MAX_VALUE")
      [] branch = "boolean" -> Bool(FALSE)
      [] branch = "ceiling" -> Undefined

\* line 447: if (recursiveNestingLevel[recursiveKey] || 0 === 0); === binds
\* tighter than ||
Anchors(rnl, recursiveKey) == Count(rnl, recursiveKey) # 0 \/ 0 = 0

\* faulty variant of CutOff: the cut comes one expansion late
CutOff_OffByOne(count) == count > MaxRecursiveNesting + 1

\* line 453: if (recursiveNestingLevel[recursiveKey] > 2)
CutOff(count) == count > MaxRecursiveNesting

\* exampleRequest[name] = value in the activation f, line 402
Assign(f, value) ==
    [f EXCEPT !.todo = Tail(f.todo),
              !.keys = Append(f.keys, Head(f.todo)[1]),
              !.vals = Append(f.vals, value)]

\* One call of getExampleValue, made at line 402 for the next property of the
\* running activation.
GetExampleValue ==
    /\ stack # <<>>
    /\ stack[Len(stack)].todo # <<>>
    /\ LET f == stack[Len(stack)]
           name == Head(f.todo)[1]
           property == schemas[Head(f.todo)[2]]
           branch == Branch(property, f.nestingLevel)
           \* line 445
           rnl0 == IF f.hasNesting THEN recursiveNestingLevel ELSE NoNesting
           \* lines 447-450
           anchors == Anchors(rnl0, f.recursiveKey)
           recursiveKey == IF anchors THEN name ELSE f.recursiveKey
           rnl1 == IF anchors
                   THEN [n \in DOMAIN rnl0 \cup {name} |->
                            IF n = name THEN Count(rnl0, name) + 1 ELSE rnl0[n]]
                   ELSE rnl0
           isArray == property.type = "array"
           target == IF isArray THEN property.items ELSE Head(f.todo)[2]
           log(b, v, t) ==
               [name |-> name, property |-> Head(f.todo)[2],
                nestingLevel |-> f.nestingLevel, branch |-> b, value |-> v,
                traversed |-> t]
           return(v) ==
               stack' = [stack EXCEPT ![Len(stack)] = Assign(f, v)]
       IN IF branch # "nested"
          THEN /\ return(Returned(branch, property))
               /\ call' = log(branch, Returned(branch, property), FALSE)
               /\ UNCHANGED recursiveNestingLevel
          ELSE IF CutOff(Count(rnl1, recursiveKey))
          THEN \* lines 453-455
               /\ return(Arr(<<Null>>))
               /\ call' = log("cycle", Arr(<<Null>>), FALSE)
               /\ recursiveNestingLevel' = rnl1
          ELSE IF ReturnsNull(target, f.onlyRequired)
          THEN \* the callee returns null before it maps any property
               /\ return(IF isArray THEN Arr(<<Null>>) ELSE Null)
               /\ call' = log(IF isArray THEN "array" ELSE "object",
                              IF isArray THEN Arr(<<Null>>) ELSE Null, TRUE)
               /\ recursiveNestingLevel' = rnl1
          ELSE \* lines 457-476
               /\ Len(stack) < MaxStack
               /\ stack' = Append(stack,
                                  Frame(target, f.onlyRequired, f.nestingLevel + 1,
                                        recursiveKey, TRUE, isArray))
               /\ call' = log(IF isArray THEN "array" ELSE "object", Undefined, TRUE)
               /\ recursiveNestingLevel' = rnl1
    /\ UNCHANGED <<schemas, referenceLookupTable, heap, openApiSpecification,
                   specification, pc, path, verb, exampleRequest,
                   simpleExampleRequest, entry, result>>

\* "return exampleRequest", line 407: the activation has mapped every property.
\* The caller is getExampleValue (line 458 or 470), which returns the object to
\* line 402 of the activation below, wrapped in an array on line 458.
Return ==
    /\ stack # <<>>
    /\ stack[Len(stack)].todo = <<>>
    /\ LET f == stack[Len(stack)]
           object == Obj(f.keys, f.vals)
           value == IF f.wrap THEN Arr(<<object>>) ELSE object
       IN IF Len(stack) = 1
          THEN /\ stack' = <<>>
               /\ result' = object
               /\ pc' = IF pc = "called" THEN "returned" ELSE pc
          ELSE /\ stack' = [SubSeq(stack, 1, Len(stack) - 1)
                               EXCEPT ![Len(stack) - 1] =
                                   Assign(stack[Len(stack) - 1], value)]
               /\ UNCHANGED <<result, pc>>
    /\ UNCHANGED <<schemas, referenceLookupTable, heap, openApiSpecification,
                   specification, path, verb, exampleRequest,
                   simpleExampleRequest, entry, recursiveNestingLevel, call>>

\* A direct call of the exported traverseAndConstructExample with the
\* arguments of entry.
TraverseAndConstructExample ==
    /\ pc = "traverseAndConstructExample"
    /\ Invoke(entry.definition, entry.onlyRequired, entry.nestingLevel,
              entry.recursiveKey, entry.hasNesting)
    /\ pc' = IF ReturnsNull(entry.definition, entry.onlyRequired)
             THEN "returned" ELSE "called"
    /\ UNCHANGED <<schemas, referenceLookupTable, heap, openApiSpecification,
                   specification, path, verb, exampleRequest,
                   simpleExampleRequest, recursiveNestingLevel>>

(***************************************************************************)
(* getExampleRequest (339-361) and getExampleResponse (363-375)            *)
(***************************************************************************)
\* referenceLookupTable[ref]
Lookup(table, ref) == IF ref \in DOMAIN table THEN table[ref] ELSE ""

Outcome(kind, definition) == [kind |-> kind, definition |-> definition]

\* faulty variant of GetExampleRequest: the check of line 354 is lost and
\* bodyParameter.schema throws when there is no body parameter
GetExampleRequest_NoBodyCheck(operation, table) ==
    IF ~operation.parameters.defined \/ Len(operation.parameters.list) = 0
    THEN Outcome("null", "")
    ELSE LET body == SelectSeq(operation.parameters.list,
                               LAMBDA p : p.in = "body")
         IN IF body = <<>> \/ ~Head(body).hasSchema THEN Outcome("throw", "")
            ELSE Outcome("call", Lookup(table, Head(body).ref))

\* what getExampleRequest does before line 358: "null" for an early return,
\* "throw" for the TypeError of bodyParameter.schema.$ref on a body parameter
\* without schema, "call" with the definition it passes on
GetExampleRequest(operation, table) ==
    IF ~operation.parameters.defined \/ Len(operation.parameters.list) = 0
    THEN Outcome("null", "")
    ELSE LET body == SelectSeq(operation.parameters.list,
                               LAMBDA p : p.in = "body")
         IN IF body = <<>> THEN Outcome("null", "")
            ELSE IF ~Head(body).hasSchema THEN Outcome("throw", "")
            ELSE Outcome("call", Lookup(table, Head(body).ref))

\* what getExampleResponse does before line 372
GetExampleResponse(operation, table) ==
    IF \/ ~operation.responses.defined
       \/ ~operation.responses.hasDefault
       \/ ~operation.responses.hasSchema
    THEN Outcome("null", "")
    ELSE Outcome("call", Lookup(table, operation.responses.ref))

\* run the outcome: the call of line 358 / 372, then on to next
Start(outcome, onlyRequired, next) ==
    IF outcome.kind = "call"
    THEN /\ pc' = next
         /\ Invoke(outcome.definition, onlyRequired, 0, "", FALSE)
    ELSE /\ pc' = IF outcome.kind = "throw" THEN "error" ELSE next
         /\ entry' = NoEntry
         /\ call' = NoCall
         /\ stack' = <<>>
         /\ result' = Null

(***************************************************************************)
(* extendSpecification, lines 275-329                                      *)
(***************************************************************************)
\* faulty variant of Clone: a shallow copy, the operation objects are shared
Clone_Shallow(paths, objects) == paths

\* R.clone: a deep copy, every operation object is copied to a new address
Clone(paths, objects) ==
    [p \in 1..Len(paths) |->
        [v \in Verbs |-> IF paths[p][v] = 0 THEN 0 ELSE paths[p][v] + Len(objects)]]

\* the address of the operation the callback is at
Current == specification[path][possibleOperations[verb]]

\* line 279
ExtendSpecification ==
    /\ pc = "extendSpecification"
    /\ specification' = Clone(openApiSpecification, heap)
    /\ heap' = heap \o heap
    /\ pc' = "operation"
    /\ path' = 1
    /\ verb' = 1
    /\ UNCHANGED <<schemas, referenceLookupTable, openApiSpecification,
                   exampleRequest, simpleExampleRequest, entry, stack,
                   recursiveNestingLevel, result, call>>

\* the next verb of the path item, then the next path item
Advance ==
    IF verb < Len(possibleOperations)
    THEN verb' = verb + 1 /\ path' = path
    ELSE verb' = 1 /\ path' = path + 1

\* lines 294-298: the callback of possibleOperations.map up to the call of
\* getExampleRequest(operation, referenceLookupTable, false)
Operation ==
    /\ pc = "operation"
    /\ path <= Len(specification)
    /\ IF Current = 0
       THEN /\ Advance
            /\ UNCHANGED <<pc, exampleRequest, simpleExampleRequest, entry,
                           stack, result, call>>
       ELSE /\ exampleRequest' = Undefined
            /\ simpleExampleRequest' = Undefined
            /\ Start(GetExampleRequest(heap[Current], referenceLookupTable),
                     FALSE, "exampleRequest")
            /\ UNCHANGED <<path, verb>>
    /\ UNCHANGED <<schemas, referenceLookupTable, heap, openApiSpecification,
                   specification, recursiveNestingLevel>>

\* faulty variant of Attach: only undefined is left off
Attach_Defined(value) == value.k # "undefined"

\* lines 300 and 306: the value is attached when it is truthy
Attach(value) == Truthy(value)

\* lines 298-303: getExampleRequest has returned the full example
ExampleRequest ==
    /\ pc = "exampleRequest"
    /\ stack = <<>>
    /\ exampleRequest' = result
    /\ IF Attach(result)
       THEN /\ heap' = [heap EXCEPT ![Current].xExampleRequest = result]
            /\ Start(GetExampleRequest(heap[Current], referenceLookupTable),
                     TRUE, "simpleExampleRequest")
       ELSE /\ heap' = heap
            /\ Start(GetExampleResponse(heap[Current], referenceLookupTable),
                     FALSE, "exampleResponse")
    /\ UNCHANGED <<schemas, referenceLookupTable, openApiSpecification,
                   specification, path, verb, simpleExampleRequest,
                   recursiveNestingLevel>>

\* faulty variant of ShouldAddToOperation: the comparison with the full
\* example is lost
ShouldAddToOperation_NoEquals(simple, full) == Truthy(simple)

\* line 304
ShouldAddToOperation(simple, full) == Attach(simple) /\ ~REquals(simple, full)

\* lines 303-311: getExampleRequest has returned the required-only example
SimpleExampleRequest ==
    /\ pc = "simpleExampleRequest"
    /\ stack = <<>>
    /\ simpleExampleRequest' = result
    /\ heap' = IF ShouldAddToOperation(result, exampleRequest)
               THEN [heap EXCEPT ![Current].xSimpleExampleRequest = result]
               ELSE heap
    /\ Start(GetExampleResponse(heap[Current], referenceLookupTable),
             FALSE, "exampleResponse")
    /\ UNCHANGED <<schemas, referenceLookupTable, openApiSpecification,
                   specification, path, verb, exampleRequest,
                   recursiveNestingLevel>>

\* lines 311-317: getExampleResponse has returned; the callback returns
ExampleResponse ==
    /\ pc = "exampleResponse"
    /\ stack = <<>>
    /\ heap' = IF Attach(result)
               THEN [heap EXCEPT ![Current].xExampleResponse = result]
               ELSE heap
    /\ Advance
    /\ pc' = "operation"
    /\ UNCHANGED <<schemas, referenceLookupTable, openApiSpecification,
                   specification, exampleRequest, simpleExampleRequest, entry,
                   stack, recursiveNestingLevel, result, call>>

\* lines 326-328: every path item is mapped
ReturnSpecification ==
    /\ pc = "operation"
    /\ path > Len(specification)
    /\ pc' = "done"
    /\ UNCHANGED <<schemas, referenceLookupTable, heap, openApiSpecification,
                   specification, path, verb, exampleRequest,
                   simpleExampleRequest, entry, stack, recursiveNestingLevel,
                   result, call>>

(***************************************************************************)
(* Initial states: a caller about to call extendSpecification on a         *)
(* specification, or traverseAndConstructExample on a schema node.         *)
(***************************************************************************)
\* a RecursiveNesting object a direct caller passes in
PassedNesting == [x |-> 2, child |-> 1]

\* the references of an operation that the resolver could resolve
Resolved(operation) ==
    ({operation.parameters.list[i].ref :
         i \in 1..Len(operation.parameters.list)}
     \cup {operation.responses.ref}) \cap DOMAIN LookupTable

\* the lookup table of a document with the references refs, and the schema
\* nodes its entries reach
InitTables(refs) ==
    /\ referenceLookupTable = [uri \in refs |-> LookupTable[uri]]
    /\ schemas = [id \in Closure({LookupTable[uri] : uri \in refs}) |->
                     ResolvedSchemas[id]]

InitExtendSpecification ==
    /\ \E operation \in OperationInputs, p \in 1..NPaths, v \in Verbs,
          widget \in BOOLEAN :
          /\ ~(widget /\ p = NPaths /\ v = "post")
          /\ InitTables(Resolved(operation)
                        \cup (IF widget THEN Resolved(WidgetOperation) ELSE {}))
          /\ heap = IF widget THEN <<operation, WidgetOperation>>
                    ELSE <<operation>>
          /\ openApiSpecification =
                [q \in 1..NPaths |->
                    [w \in Verbs |->
                        IF q = p /\ w = v THEN 1
                        ELSE IF widget /\ q = NPaths /\ w = "post" THEN 2
                        ELSE 0]]
    /\ specification = <<>>
    /\ pc = "extendSpecification"
    /\ path = 0
    /\ verb = 0
    /\ exampleRequest = Undefined
    /\ simpleExampleRequest = Undefined
    /\ entry = NoEntry
    /\ stack = <<>>
    /\ recursiveNestingLevel = NoNesting
    /\ result = Undefined
    /\ call = NoCall

InitTraverse ==
    /\ heap = <<>>
    /\ openApiSpecification = <<>>
    /\ specification = <<>>
    /\ pc = "traverseAndConstructExample"
    /\ path = 0
    /\ verb = 0
    /\ exampleRequest = Undefined
    /\ simpleExampleRequest = Undefined
    /\ \E definition \in SchemaIds, onlyRequired \in BOOLEAN,
          nestingLevel \in 0..MaxLevel, hasNesting \in BOOLEAN :
          /\ entry = [fn |-> "traverseAndConstructExample",
                      definition |-> definition, onlyRequired |-> onlyRequired,
                      nestingLevel |-> nestingLevel,
                      recursiveKey |-> IF hasNesting THEN "x" ELSE "",
                      hasNesting |-> hasNesting]
          /\ recursiveNestingLevel =
                IF hasNesting THEN PassedNesting ELSE NoNesting
          /\ referenceLookupTable = [uri \in {} |-> ""]
          /\ schemas = [id \in Closure({definition}) |-> ResolvedSchemas[id]]
    /\ stack = <<>>
    /\ result = Undefined
    /\ call = NoCall

Init == InitExtendSpecification \/ InitTraverse

Next ==
    \/ ExtendSpecification
    \/ Operation
    \/ ExampleRequest
    \/ SimpleExampleRequest
    \/ ExampleResponse
    \/ ReturnSpecification
    \/ TraverseAndConstructExample
    \/ GetExampleValue
    \/ Return

\* The program is one synchronous computation: it keeps running until it
\* returns or throws.
Spec == Init /\ [][Next]_vars /\ WF_vars(Next)

\* the top-level call of entry has returned and result is its value
Completed ==
    /\ entry.fn = "traverseAndConstructExample"
    /\ stack = <<>>
    /\ pc \in {"returned", "exampleRequest", "simpleExampleRequest",
               "exampleResponse"}

(***************************************************************************)
(* Properties                                                              *)
(***************************************************************************)
\* the frames of the running top-level call
Frames == {stack[i] : i \in 1..Len(stack)}
\* the call of entry was made as getExampleRequest / getExampleResponse make
\* it: depth 0, no recursion key, no RecursiveNesting object
TopLevel ==
    /\ entry.fn = "traverseAndConstructExample"
    /\ entry.nestingLevel = 0
    /\ ~entry.hasNesting
\* the names of the properties of a node
PropertyNames(node) ==
    {node.properties[i][1] : i \in 1..Len(node.properties)}
\* the operation objects of the returned specification
Extended ==
    {specification[p][v] : p \in 1..Len(specification), v \in Verbs} \ {0}
\* the operation objects of the caller's specification
Original ==
    {openApiSpecification[p][v] :
        p \in 1..Len(openApiSpecification), v \in Verbs} \ {0}

\* The object type d references itself through the one property p, directly
\* or as the items of the array typed property, and through nothing else.
SelfReference(d, p) ==
    /\ ResolvedSchemas[d].type = "object"
    /\ ResolvedSchemas[d].example = Undefined
    /\ p \in PropertyNames(ResolvedSchemas[d])
    /\ \A i \in 1..Len(ResolvedSchemas[d].properties) :
          LET q == ResolvedSchemas[d].properties[i][1]
              t == ResolvedSchemas[d].properties[i][2]
          IN IF q = p
             THEN /\ ResolvedSchemas[t].example = Undefined
                  /\ \/ t = d
                     \/ /\ ResolvedSchemas[t].type = "array"
                        /\ ResolvedSchemas[t].items = d
             ELSE Succ(t) = {}
\* the property is among those the call maps
Mapped(d, p, onlyRequired) ==
    \/ ~onlyRequired
    \/ /\ ResolvedSchemas[d].hasRequired
       /\ p \in SeqToSet(ResolvedSchemas[d].required)
\* the object behind a value: the element of a one-element array, or the value
Element(v) == IF v.k = "array" /\ Len(v.vals) = 1 THEN v.vals[1] ELSE v

\* the shape of the result of such a call: p nested as an object twice, then
\* [null]
C1_Shape ==
    \A p \in Names :
        (/\ Completed
         /\ TopLevel
         /\ entry.definition # ""
         /\ SelfReference(entry.definition, p)
         /\ Mapped(entry.definition, p, entry.onlyRequired))
        => /\ result.k = "object"
           /\ Element(Get(result, p)).k = "object"
           /\ Element(Get(Element(Get(result, p)), p)).k = "object"
           /\ Get(Element(Get(Element(Get(result, p)), p)), p) = Arr(<<Null>>)
\* such a call is running
C1_Running ==
    /\ TopLevel
    /\ stack # <<>>
    /\ \E p \in Names : SelfReference(entry.definition, p)
PastRequest == pc = "exampleResponse"

\* C2 (as stated): once an operation with a non-null full example is past the
\* request steps, it carries no xSimpleExampleRequest when the required-only
\* result equals the full example, and carries the required-only result when
\* the two differ; xSimpleExampleRequest never occurs without xExampleRequest.
C2_Original ==
    /\ (PastRequest /\ exampleRequest # Null)
       => IF simpleExampleRequest = exampleRequest
          THEN heap[Current].xSimpleExampleRequest = Absent
          ELSE heap[Current].xSimpleExampleRequest = simpleExampleRequest
    /\ \A a \in Extended :
          heap[a].xSimpleExampleRequest # Absent => heap[a].xExampleRequest # Absent

\* C2 (amended): the required-only result is attached exactly when it is
\* non-null and differs from the full example, and then it is the attached
\* value; when it is null or equal to the full example the field is absent.
C2_SimpleVsFull ==
    /\ (PastRequest /\ exampleRequest # Null)
       => IF simpleExampleRequest = exampleRequest \/ simpleExampleRequest = Null
          THEN heap[Current].xSimpleExampleRequest = Absent
          ELSE heap[Current].xSimpleExampleRequest = simpleExampleRequest
    /\ \A a \in Extended :
          heap[a].xSimpleExampleRequest # Absent => heap[a].xExampleRequest # Absent
C2_Witness ==
    /\ PastRequest
    /\ exampleRequest # Null
    /\ simpleExampleRequest # Null
    /\ simpleExampleRequest # exampleRequest
    /\ heap[Current].xSimpleExampleRequest = simpleExampleRequest
    /\ heap[Current].xExampleRequest = exampleRequest

\* C3: a returned call on a node with properties P and required list R has,
\* with onlyRequired, the key set P \cap R, and is null when that set is empty
\* or the node has no required list; without onlyRequired the key set is P,
\* null when P is empty.  Any depth, any recursion state.
C3_RequiredOnlySubset ==
    (Completed /\ entry.definition # "")
    => LET node == ResolvedSchemas[entry.definition]
           P == PropertyNames(node)
           R == SeqToSet(node.required)
           K == IF entry.onlyRequired THEN P \cap R ELSE P
       IN IF K = {} \/ (entry.onlyRequired /\ ~node.hasRequired)
          THEN result = Null
          ELSE /\ result.k = "object"
               /\ SeqToSet(result.keys) = K
               /\ Len(result.keys) = Cardinality(K)
C3_Witness ==
    /\ Completed
    /\ entry.definition = "Scalars"
    /\ entry.onlyRequired
    /\ entry.nestingLevel = 5
    /\ SeqToSet(result.keys) = {"s", "u", "n"}

\* getExampleValue has been called on a node that carries a literal example
C4_Called == call.name # "" /\ ResolvedSchemas[call.property].example # Undefined

\* C4 (as stated): for a node carrying a literal example, whatever the value,
\* getExampleValue returns that value and takes no other branch.
C4_LiteralExample ==
    C4_Called
    => /\ call.branch = "example"
       /\ call.value = ResolvedSchemas[call.property].example

\* the node responses.default.schema.$ref resolves to, "" when there is none
ResponseSchema(operation) ==
    IF /\ operation.responses.defined
       /\ operation.responses.hasDefault
       /\ operation.responses.hasSchema
       /\ operation.responses.ref \in DOMAIN LookupTable
    THEN LookupTable[operation.responses.ref]
    ELSE ""
\* the operation's responses.default.schema resolves to a boolean schema
BooleanResponse(operation) ==
    /\ ResponseSchema(operation) # ""
    /\ ResolvedSchemas[ResponseSchema(operation)].type = "boolean"
    /\ ResolvedSchemas[ResponseSchema(operation)].properties = <<>>

\* C5 (as stated): an operation whose default response schema is of type
\* boolean gets xExampleResponse = false.
C5_Original ==
    pc = "done"
    => \A a \in Extended :
          BooleanResponse(heap[a]) => heap[a].xExampleResponse = Bool(FALSE)

\* C5 (amended): an operation whose default response schema is of type
\* boolean and declares no properties gets no xExampleResponse at all.
C5_BooleanResponse ==
    pc = "done"
    => \A a \in Extended :
          BooleanResponse(heap[a]) => heap[a].xExampleResponse = Absent
C5_Witness ==
    /\ pc = "done"
    /\ \E a \in Extended : BooleanResponse(heap[a])

\* the index of the first parameter located in "body", 0 when there is none
FirstBody(operation) ==
    LET body == {i \in 1..Len(operation.parameters.list) :
                    operation.parameters.list[i].in = "body"}
    IN IF ~operation.parameters.defined \/ body = {} THEN 0
       ELSE CHOOSE i \in body : \A j \in body : i <= j
\* the request data of the operation is missing in one of the listed ways
RequestMissing(operation) ==
    \/ FirstBody(operation) = 0
    \/ /\ operation.parameters.list[FirstBody(operation)].hasSchema
       /\ LET ref == operation.parameters.list[FirstBody(operation)].ref
          IN \/ ref \notin DOMAIN LookupTable
             \/ ResolvedSchemas[LookupTable[ref]].properties = <<>>
\* the body parameter has no schema at all: not one of the listed ways
NoBodySchema(operation) ==
    /\ FirstBody(operation) # 0
    /\ ~operation.parameters.list[FirstBody(operation)].hasSchema
\* the response data of the operation is missing in one of the listed ways
ResponseMissing(operation) ==
    \/ ResponseSchema(operation) = ""
    \/ ResolvedSchemas[ResponseSchema(operation)].properties = <<>>
\* the examples of the Widget schema
WidgetExample ==
    Obj(<<"name", "count", "tag">>,
        <<Str("Example string"), Num(2147483647), Str("Example string")>>)
WidgetSimpleExample ==
    Obj(<<"name", "count">>, <<Str("Example string"), Num(2147483647)>>)
\* the operation is the Widget operation of the input
IsWidgetOperation(operation) ==
    /\ operation.parameters = WidgetOperation.parameters
    /\ operation.responses = WidgetOperation.responses

\* C6: an operation with missing data (no parameters, no body parameter, no
\* responses.default.schema, a schema without properties, a $ref without
\* entry or no $ref) raises no error and stays without the example field,
\* and the other operations are processed: the Widget operation gets its
\* examples whatever the deficient operation is and wherever it stands.
C6_MissingData ==
    /\ pc = "error"
       => \E a \in Original : NoBodySchema(heap[a])
    /\ pc = "done"
       => \A a \in Extended :
             /\ RequestMissing(heap[a])
                => /\ heap[a].xExampleRequest = Absent
                   /\ heap[a].xSimpleExampleRequest = Absent
             /\ ResponseMissing(heap[a]) => heap[a].xExampleResponse = Absent
             /\ IsWidgetOperation(heap[a])
                => /\ heap[a].xExampleRequest = WidgetExample
                   /\ heap[a].xSimpleExampleRequest = WidgetSimpleExample
                   /\ heap[a].xExampleResponse = WidgetExample
C6_Witness ==
    /\ pc = "done"
    /\ \E a, b \in Extended :
          /\ a < b
          /\ RequestMissing(heap[a])
          /\ ResponseMissing(heap[a])
          /\ FirstBody(heap[a]) # 0
          /\ heap[b].xExampleRequest = WidgetExample

\* C7: the operation objects of the caller's specification never gain or
\* change an example field, and the lookup table and its schema nodes stay
\* as they were; the fields are on the returned specification only.
C7_InputUnchanged ==
    /\ \A a \in Original :
          /\ heap[a].xExampleRequest = Absent
          /\ heap[a].xSimpleExampleRequest = Absent
          /\ heap[a].xExampleResponse = Absent
    /\ Extended \cap Original = {}
    /\ \A id \in DOMAIN schemas : schemas[id] = ResolvedSchemas[id]
    /\ \A uri \in DOMAIN referenceLookupTable :
          /\ referenceLookupTable[uri] = LookupTable[uri]
          /\ Closure({LookupTable[uri]}) \subseteq DOMAIN schemas
C7_Witness ==
    /\ pc = "done"
    /\ \E a \in Extended :
          /\ heap[a].xExampleRequest # Absent
          /\ heap[a].xSimpleExampleRequest # Absent
          /\ heap[a].xExampleResponse # Absent

\* getExampleValue has been called on an object or array typed node without
\* literal example
C8_Called ==
    /\ call.name # ""
    /\ ResolvedSchemas[call.property].type \in {"object", "array"}
    /\ ResolvedSchemas[call.property].example = Undefined

\* C8: getExampleValue called with depth 11 on an object or array typed node
\* without literal example returns undefined and calls
\* traverseAndConstructExample no further; with depth 10 or less it is not cut
\* off by the depth ceiling.
C8_DepthCeiling ==
    C8_Called
    => /\ call.nestingLevel = 11
          => /\ call.branch = "ceiling"
             /\ call.value = Undefined
             /\ ~call.traversed
             /\ \A f \in Frames : f.nestingLevel <= 11
       /\ call.nestingLevel <= 10 => call.branch \in {"cycle", "array", "object"}
C8_Witness ==
    /\ C8_Called
    /\ TopLevel
    /\ entry.definition = "c1"
    /\ ~HasCycle("c1")
    /\ call.nestingLevel = 11
    /\ call.value = Undefined

\* C9 (as stated): in a schema in which no type is reachable from itself no
\* property value is replaced by the [null] terminator of the cycle guard.
C9_OnlyCycles ==
    (TopLevel /\ ~HasCycle(entry.definition)) => call.branch # "cycle"

\* the nesting levels of the calls of a top-level call at depth 0
C10_Levels ==
    (entry.fn = "traverseAndConstructExample" /\ entry.nestingLevel = 0)
    => /\ \A f \in Frames : f.nestingLevel <= 11
       /\ call.nestingLevel <= 11
       /\ call.traversed => call.nestingLevel + 1 <= 11
\* a top-level call at depth 0 is running
C10_Running ==
    /\ entry.fn = "traverseAndConstructExample"
    /\ entry.nestingLevel = 0
    /\ stack # <<>>
\* C10: every top-level call at depth 0 terminates, whatever cycles the
\* lookup table has (mutual cycles through differently named properties,
\* several self-referencing properties), and no call of
\* traverseAndConstructExample or getExampleValue made during it has a
\* nesting level above 11.
C10_Termination == []C10_Levels /\ (C10_Running ~> Completed)
C10_Witness ==
    /\ TopLevel
    /\ entry.definition = "R1"
    /\ HasCycle("R1")
    /\ \E f \in Frames : f.nestingLevel = 11
    /\ call.nestingLevel = 11
====
